---- MODULE Spec2Model ----
(***************************************************************************)
(* Predicator: the Cookbook of src/predicator/__init__.py.                 *)
(*                                                                         *)
(* A Cookbook owns two lists, rules and recipes.  Its operations are the   *)
(* appends to the two lists (the lists are public attributes), the lookup  *)
(* recipe_for, the property required and the resolution missing_inputs.    *)
(* Every call is recorded in the variable last together with its outcome:  *)
(* the returned value or the exception that left the call.                 *)
(*                                                                         *)
(* A Recipe (and a Rule, its subclass) is a record of its class, of the    *)
(* callable it wraps, of the name supplied for it and of its requires.     *)
(* requires is the tuple of the argument names of the wrapped callable;    *)
(* argument names of one callable are pairwise different and the Cookbook  *)
(* only ever pours the tuple into a set, so it is kept as a set.           *)
(*                                                                         *)
(* Spec is the Cookbook under appends and lookups; SpecUnit is the Recipes *)
(* and Rules themselves: their names, the name setter, their invocation.   *)
(***************************************************************************)
EXTENDS Integers, Sequences, FiniteSets, TLC

\* ------------------------------------------------------------------ bounds
Names == {"a", "b", "c"}

MaxRules == 1
MaxRecipes == 3
MaxRuleArgs == 2
MaxRecipeArgs == 1

VARIABLES rules, recipes, last

vars == <<rules, recipes, last>>

\* ----------------------------------------------------------- call outcomes
Return(v) == [kind |-> "return", value |-> v]

Raise(e) == [kind |-> "raise", error |-> e]

NoOutcome == [kind |-> "none"]

NoCall == [op |-> "none", arg |-> {}, outcome |-> NoOutcome]

\* ------------------------------------------------------- Recipe and Rule
\* The callables a Recipe wraps, as far as Recipe looks at them: whether
\* inspect.isfunction holds of it, its __name__ and the name of its class.
\* A def or a lambda is a function; an instance of a class with __call__
\* and a bound method are callable objects that are no functions.
Function(n) == [isfunction |-> TRUE, name |-> n, class |-> "function"]

Instance(c) == [isfunction |-> FALSE, name |-> "", class |-> c]

Method(n) == [isfunction |-> FALSE, name |-> n, class |-> "method"]

Lambda == Function("<lambda>")

\* The name argument of Recipe.__init__: None by default, or a string.
NotSupplied == [given |-> FALSE]

Supplied(n) == [given |-> TRUE, value |-> n]

\* Recipe.__init__ (Rule inherits it): the callable and the supplied name
\* are stored; requires holds the argument names of the callable.
Unit(cls, func, supplied, req) ==
    [cls |-> cls, func |-> func, supplied_name |-> supplied, requires |-> req]

\* Recipe(lambda <req>: None, name=n)
Recipe(n, req) == Unit("Recipe", Lambda, Supplied(n), req)

\* Rule(lambda <req>: None)
Rule(req) == Unit("Rule", Lambda, NotSupplied, req)

requires(r) == r.requires

\* A mutant of name: the function's own name wins over the supplied one.
name_of_function_first(r) ==
    IF r.func.isfunction
    THEN r.func.name
    ELSE IF r.supplied_name.given
         THEN r.supplied_name.value
         ELSE r.func.class

\* Recipe.name: the supplied name unless it is None, else the __name__ of a
\* function, else the name of the class of the callable.
name(r) ==
    IF r.supplied_name.given
    THEN r.supplied_name.value
    ELSE IF r.func.isfunction
         THEN r.func.name
         ELSE r.func.class

\* Recipe.name's setter.
set_name(r, new_name) == [r EXCEPT !.supplied_name = Supplied(new_name)]

\* --------------------------------------------------------------- Cookbook
\* The attributes an instance of Cookbook has: the two set by __init__ and
\* the names defined in the class body.
CookbookAttributes ==
    {"rules", "recipes", "recipe_for", "missing_inputs",
     "_ensure_no_recipe_cycles", "required"}

\* Cookbook.required: the union of the requires of every rule.
required(rs) == UNION {requires(rs[i]) : i \in DOMAIN rs}

\* A mutant of recipe_for: the last recipe of the name instead of the first.
recipe_for_last(rcps, input_name) ==
    LET matching == {i \in DOMAIN rcps : name(rcps[i]) = input_name}
    IN  IF matching = {}
        THEN Raise("ValueError")
        ELSE LET i == CHOOSE k \in matching : \A j \in matching : j <= k
             IN  Return([index |-> i, recipe |-> rcps[i]])

\* Cookbook.recipe_for: the for loop returns at the first recipe whose name
\* equals input_name; its else branch raises when the loop ran to the end.
RECURSIVE recipe_for_from(_, _, _)
recipe_for_from(rcps, input_name, i) ==
    IF i > Len(rcps)
    THEN Raise("ValueError")
    ELSE IF name(rcps[i]) = input_name
         THEN Return([index |-> i, recipe |-> rcps[i]])
         ELSE recipe_for_from(rcps, input_name, i + 1)

recipe_for(rcps, input_name) == recipe_for_from(rcps, input_name, 1)

\* The number of arguments, self apart, that _ensure_no_recipe_cycles takes.
EnsureParams == 1

\* The number of arguments, self apart, that missing_inputs passes to it.
EnsureCallArgs == 2

NoneValue == [none |-> TRUE]

Diverge == [kind |-> "diverge"]

\* One pass of the body of the for loop of _ensure_no_recipe_cycles: the
\* lookup of the checked input's recipe, whose ValueError nothing catches,
\* then the while True loop, whose first statement looks up self._get_next.
ensure_iteration(rcps, checked_input) ==
    LET found == recipe_for(rcps, checked_input)
    IN  IF found.kind = "raise"
        THEN found
        ELSE IF "_get_next" \notin CookbookAttributes
             THEN Raise("AttributeError")
             ELSE Diverge

\* Cookbook._ensure_no_recipe_cycles: the set of the outcomes it can have.
\* The for loop runs over a set of strings, whose order of iteration is
\* not fixed; no pass of the loop body completes, so the outcome is that of
\* the pass of whichever input comes first.
ensure_no_recipe_cycles(rs, rcps, primary_inputs) ==
    LET provided == primary_inputs
        req == required(rs) \ provided
    IN  IF req = {}
        THEN {Return(NoneValue)}
        ELSE {ensure_iteration(rcps, checked_input) : checked_input \in req}

\* Lines 282-289 of missing_inputs: the requires of every recipe whose name
\* is required by a rule, joined to the rules' requirements that no recipe
\* is named after.
missing_inputs_result(rs, rcps) ==
    LET required_for_recipes ==
            UNION {requires(rcps[i]) :
                     i \in {j \in DOMAIN rcps : name(rcps[j]) \in required(rs)}}
    IN  (required(rs) \ {name(rcps[i]) : i \in DOMAIN rcps})
            \cup required_for_recipes

\* Cookbook.missing_inputs: the set of the outcomes the call can have. Its
\* first statement looks up self._generate_used_recipes_graph, its second
\* calls _ensure_no_recipe_cycles with two arguments.
missing_inputs(rs, rcps, primary_inputs) ==
    IF "_generate_used_recipes_graph" \notin CookbookAttributes
    THEN {Raise("AttributeError")}
    ELSE IF EnsureCallArgs # EnsureParams
         THEN {Raise("TypeError")}
         ELSE LET checked == ensure_no_recipe_cycles(rs, rcps, primary_inputs)
              IN  {o \in checked : o.kind # "return"}
                  \cup (IF \E o \in checked : o.kind = "return"
                        THEN {Return(missing_inputs_result(rs, rcps))}
                        ELSE {})

\* ------------------------------------------------------------------ state
RuleArgs == {s \in SUBSET Names : Cardinality(s) <= MaxRuleArgs}

RecipeArgs == {s \in SUBSET Names : Cardinality(s) <= MaxRecipeArgs}

\* Cookbook.__init__ without arguments: two empty lists.
Init ==
    /\ rules = <<>>
    /\ recipes = <<>>
    /\ last = NoCall

\* cookbook.rules.append(Rule(...))
AppendRule ==
    /\ Len(rules) < MaxRules
    /\ \E req \in RuleArgs : rules' = Append(rules, Rule(req))
    /\ last' = NoCall
    /\ UNCHANGED recipes

\* cookbook.recipes.append(Recipe(..., name=n))
AppendRecipe ==
    /\ Len(recipes) < MaxRecipes
    /\ \E n \in Names, req \in RecipeArgs :
          recipes' = Append(recipes, Recipe(n, req))
    /\ last' = NoCall
    /\ UNCHANGED rules

\* cookbook.recipe_for(n)
CallRecipeFor ==
    /\ \E n \in Names :
          last' = [op |-> "recipe_for", arg |-> n,
                   outcome |-> recipe_for(recipes, n)]
    /\ UNCHANGED <<rules, recipes>>

\* cookbook.required
CallRequired ==
    /\ last' = [op |-> "required", arg |-> {},
                outcome |-> Return(required(rules))]
    /\ UNCHANGED <<rules, recipes>>

\* A mutant of CallMissingInputs: the call ignores the recipes of the
\* primary inputs by deleting them from the list.
CallMissingInputs_dropping ==
    \E primary_inputs \in SUBSET Names :
       \E o \in missing_inputs(rules, recipes, primary_inputs) :
          /\ last' = [op |-> "missing_inputs", arg |-> primary_inputs,
                      outcome |-> o]
          /\ recipes' = SelectSeq(recipes,
                                  LAMBDA r : name(r) \notin primary_inputs)
          /\ UNCHANGED rules

\* cookbook.missing_inputs(*primary_inputs)
CallMissingInputs ==
    /\ \E primary_inputs \in SUBSET Names :
         \E o \in missing_inputs(rules, recipes, primary_inputs) :
            last' = [op |-> "missing_inputs", arg |-> primary_inputs,
                     outcome |-> o]
    /\ UNCHANGED <<rules, recipes>>

Next ==
    \/ AppendRule
    \/ AppendRecipe
    \/ CallRecipeFor
    \/ CallRequired
    \/ CallMissingInputs

Spec == Init /\ [][Next]_vars

\* ------------------------------------------- invoking Recipes and Rules
\* The values a wrapped callable may return: their type and their repr.
PyValue(t, v) == [type |-> t, repr |-> v]

PyValues ==
    {PyValue("bool", "True"), PyValue("bool", "False"),
     PyValue("int", "1"), PyValue("int", "0"),
     PyValue("str", "'yes'"), PyValue("NoneType", "None")}

\* The positional arguments of an invocation.
ArgTuples == {<<>>, <<1>>}

\* What a wrapped callable does with given arguments: it returns a value or
\* raises (a TypeError when the arguments do not fit its signature).
FuncOutcomes == {Return(v) : v \in PyValues} \cup {Raise("TypeError")}

\* A callable that takes the arguments of one shape, and raises TypeError
\* for the others.
Behaviours ==
    {[a \in ArgTuples |-> IF a = accepted THEN o ELSE Raise("TypeError")] :
        accepted \in ArgTuples, o \in FuncOutcomes}

\* A mutant of isinstance_bool: the truth value of the verdict is tested.
is_truthy(verdict) == verdict.repr \notin {"False", "0", "None"}

\* isinstance(verdict, bool)
isinstance_bool(verdict) == verdict.type = "bool"

\* Recipe.__call__: return self._func(*args, **kwargs)
recipe_call(f, args) == f[args]

\* Rule.__call__: the verdict of Recipe.__call__, asserted to be a bool.
rule_call(f, args) ==
    LET verdict == recipe_call(f, args)
    IN  IF verdict.kind = "raise"
        THEN verdict
        ELSE IF isinstance_bool(verdict.value)
             THEN Return(verdict.value)
             ELSE Raise("AssertionError")

\* unit(*args): the __call__ of the unit's class.
call(unit, f, args) ==
    IF unit.cls = "Rule" THEN rule_call(f, args) ELSE recipe_call(f, args)

\* --------------------------------------- Recipes of every kind of callable
UnitNames == {"a", "b"}

MaxUnits == 2

UnitFuncs ==
    {Function(n) : n \in UnitNames} \cup {Instance(n) : n \in UnitNames}
        \cup {Method("a")}

UnitSupplied == {NotSupplied} \cup {Supplied(n) : n \in UnitNames}

\* cookbook.recipes.append(Recipe(func)) and
\* cookbook.recipes.append(Recipe(func, name=n))
AppendUnit ==
    /\ Len(recipes) < MaxUnits
    /\ \E func \in UnitFuncs, supplied \in UnitSupplied :
          recipes' = Append(recipes, Unit("Recipe", func, supplied, {}))
    /\ last' = NoCall
    /\ UNCHANGED rules

\* cookbook.rules.append(Rule(func))
AppendUnitRule ==
    /\ Len(rules) < MaxRules
    /\ rules' = Append(rules, Rule({}))
    /\ last' = NoCall
    /\ UNCHANGED recipes

\* cookbook.recipes[i].name = n
SetName ==
    /\ \E i \in DOMAIN recipes, n \in UnitNames :
          /\ recipes' = [recipes EXCEPT ![i] = set_name(@, n)]
          /\ last' = [op |-> "set_name", arg |-> [unit |-> i, value |-> n],
                      outcome |-> Return(NoneValue)]
    /\ UNCHANGED rules

\* cookbook.recipes[i].name
GetName ==
    /\ \E i \in DOMAIN recipes :
          last' = [op |-> "name", arg |-> i,
                   outcome |-> Return(name(recipes[i]))]
    /\ UNCHANGED <<rules, recipes>>

\* cookbook.recipes[i](*args), f being what the wrapped callable does
InvokeRecipe ==
    /\ \E i \in DOMAIN recipes, args \in ArgTuples, f \in Behaviours :
          last' = [op |-> "__call__",
                   arg |-> [cls |-> recipes[i].cls, unit |-> i,
                            args |-> args, inner |-> f[args]],
                   outcome |-> call(recipes[i], f, args)]
    /\ UNCHANGED <<rules, recipes>>

\* cookbook.rules[i](*args), f being what the wrapped callable does
InvokeRule ==
    /\ \E i \in DOMAIN rules, args \in ArgTuples, f \in Behaviours :
          last' = [op |-> "__call__",
                   arg |-> [cls |-> rules[i].cls, unit |-> i,
                            args |-> args, inner |-> f[args]],
                   outcome |-> call(rules[i], f, args)]
    /\ UNCHANGED <<rules, recipes>>

NextUnit ==
    \/ AppendUnit
    \/ AppendUnitRule
    \/ SetName
    \/ GetName
    \/ CallRecipeFor
    \/ InvokeRecipe
    \/ InvokeRule

SpecUnit == Init /\ [][NextUnit]_vars

\* ------------------------------------------------- vocabulary of the claims
\* What the claims call things, stated over the current rules and recipes
\* without any use of the operators that model the Cookbook's methods.
\* The name a recipe goes by: the explicit name when one was given, else the
\* wrapped function's own name, else the name of the callable's type.
CurrentName(r) ==
    IF r.supplied_name.given THEN r.supplied_name.value
    ELSE IF r.func.isfunction THEN r.func.name ELSE r.func.class

HasRecipe(n) == \E i \in DOMAIN recipes : CurrentName(recipes[i]) = n

FirstIndex(n) ==
    CHOOSE i \in DOMAIN recipes :
        /\ CurrentName(recipes[i]) = n
        /\ \A j \in DOMAIN recipes : CurrentName(recipes[j]) = n => i <= j

RootRequirements == UNION {rules[i].requires : i \in DOMAIN rules}

\* The names an input leads to: the requires of its first-registered recipe,
\* nothing for a primary input or an input without recipe.
Edges(n, P) ==
    IF n \in P \/ ~HasRecipe(n) THEN {} ELSE recipes[FirstIndex(n)].requires

RECURSIVE Closure(_, _)
Closure(S, P) ==
    LET T == S \cup UNION {Edges(n, P) : n \in S}
    IN  IF T = S THEN S ELSE Closure(T, P)

Reachable(P) == Closure(RootRequirements \ P, P)

\* The names whose first-registered recipe is a used recipe.
UsedNames(P) == {n \in Reachable(P) \ P : HasRecipe(n)}

UsedCycle(P) == \E n \in UsedNames(P) : n \in Closure(Edges(n, P), P)

ExpectedMissing(P) ==
    {n \in RootRequirements \cup UNION {Edges(u, P) : u \in UsedNames(P)} :
        ~HasRecipe(n)} \ P

Resolved == last.op = "missing_inputs"

Returned == last.outcome.kind = "return"

\* ------------------------------------------------------------------ claims
\* C1: when no cycle exists among the used recipes, missing_inputs(P)
\* returns exactly the rules' requirements and the requirements of every
\* used recipe, less the names that have a recipe, less P.
C1_MissingIsClosure ==
    (Resolved /\ ~UsedCycle(last.arg))
        => last.outcome = Return(ExpectedMissing(last.arg))

\* C2: with an empty recipes list, missing_inputs() without primary inputs
\* returns exactly the union of every rule's requires.
C2_NoRecipesAllRequired ==
    (Resolved /\ last.arg = {} /\ recipes = <<>>)
        => last.outcome = Return(RootRequirements)

\* C3: for a name X required by a rule and having exactly one recipe,
\* missing_inputs() returns a set without X that holds every name of that
\* recipe's requires which has no recipe of its own.
C3_RecipeReplacesInput ==
    (Resolved /\ last.arg = {})
        => \A X \in RootRequirements :
              Cardinality({i \in DOMAIN recipes : CurrentName(recipes[i]) = X}) = 1
                 => /\ Returned
                    /\ X \notin last.outcome.value
                    /\ {n \in recipes[FirstIndex(X)].requires : ~HasRecipe(n)}
                           \subseteq last.outcome.value

\* C4: when recipes share a name, missing_inputs() returns the set that the
\* earliest-registered recipe of each name alone determines: the set it
\* returns for the list without the later duplicates.
Duplicated == \E i, j \in DOMAIN recipes : i < j /\ CurrentName(recipes[i]) = CurrentName(recipes[j])

LaterRequires ==
    UNION {recipes[j].requires :
             j \in {k \in DOMAIN recipes : k # FirstIndex(CurrentName(recipes[k]))}}

C4_LaterDuplicatesInert ==
    (Resolved /\ Duplicated)
        => /\ Returned
           /\ last.outcome.value \cap LaterRequires
                 \subseteq ExpectedMissing(last.arg)

\* C5: no primary input is in missing_inputs(P), the requires of a recipe
\* named after a primary input are not reported on its account, and a
\* cycle that passes through a primary input raises nothing.
C5_PrimaryInputsExempt ==
    (Resolved /\ last.arg # {})
        => /\ Returned => /\ last.outcome.value \cap last.arg = {}
                          /\ last.outcome.value \subseteq Reachable(last.arg)
           /\ ~UsedCycle(last.arg) => last.outcome.kind # "raise"

\* C6: a name that appears only in the requires of recipes not reachable
\* from the rules is never in the set missing_inputs() returns.
OnlyUnreachable ==
    {q \in UNION {recipes[i].requires : i \in DOMAIN recipes} :
        q \notin Reachable({})}

C6_UnreachableNeverMissing ==
    (Resolved /\ last.arg = {} /\ ~UsedCycle({}) /\ OnlyUnreachable # {})
        => /\ Returned
           /\ last.outcome.value \cap OnlyUnreachable = {}

\* C7: when a cycle exists among the recipes reachable from the rules,
\* missing_inputs() fails with the cyclic-dependency error, a ValueError.
C7_UsedCycleRaises ==
    (Resolved /\ last.arg = {} /\ UsedCycle({}))
        => last.outcome = Raise("ValueError")

\* C8: when no cycle exists among the recipes reachable from the rules'
\* requirements outside P, missing_inputs(P) raises nothing and returns a
\* set of input names.
C8_NoUsedCycleReturns ==
    (Resolved /\ ~UsedCycle(last.arg))
        => /\ Returned
           /\ last.outcome.value \in SUBSET Names

\* C9: a required name without recipe never makes the ValueError of
\* recipe_for leave missing_inputs; where no used cycle exists it is an
\* element of the returned set.
Unmet(P) == {n \in Reachable(P) \ P : ~HasRecipe(n)}

C9_NoRecipeIsReported ==
    (Resolved /\ Unmet(last.arg) # {})
        => /\ last.outcome # Raise("ValueError")
           /\ ~UsedCycle(last.arg)
                 => /\ Returned
                    /\ Unmet(last.arg) \subseteq last.outcome.value

\* C10: recipe_for(n) returns the recipe of the lowest index whose name is
\* n, raises ValueError exactly when no recipe has that name, and the
\* append of another recipe of a name already present leaves what
\* recipe_for returns for that name unchanged.
LookedUp == last.op = "recipe_for"

C10_State ==
    LookedUp =>
        IF \E i \in DOMAIN recipes : CurrentName(recipes[i]) = last.arg
        THEN /\ Returned
             /\ last.outcome.value.index = FirstIndex(last.arg)
             /\ last.outcome.value.recipe = recipes[FirstIndex(last.arg)]
        ELSE last.outcome = Raise("ValueError")

C10_Append ==
    \A n \in Names :
        (/\ Len(recipes') = Len(recipes) + 1
         /\ SubSeq(recipes', 1, Len(recipes)) = recipes
         /\ HasRecipe(n)
         /\ CurrentName(recipes'[Len(recipes')]) = n)
            => recipe_for(recipes', n) = recipe_for(recipes, n)

C10_RecipeForFirst == [](C10_State) /\ [][C10_Append]_vars

\* Reached: recipe_for(n) was called with two recipes of the name n in the
\* list, and returned the first of them.
C10_Witness ==
    /\ LookedUp
    /\ Cardinality({i \in DOMAIN recipes : CurrentName(recipes[i]) = last.arg}) >= 2
    /\ Returned
    /\ last.outcome.value.index = 1
    /\ CurrentName(recipes[2]) = last.arg
    /\ recipes[2].requires # recipes[1].requires

\* C11: invoking a Rule returns the wrapped callable's result when that
\* result is a boolean and fails with AssertionError for every result that
\* is not one; invoking a plain Recipe returns whatever the callable
\* returns.
Invoked == last.op = "__call__"

C11_RuleResultIsBoolean ==
    Invoked =>
        IF last.arg.cls = "Rule"
        THEN last.arg.inner.kind = "return"
                => IF last.arg.inner.value.type = "bool"
                   THEN last.outcome = last.arg.inner
                   ELSE last.outcome = Raise("AssertionError")
        ELSE last.outcome = last.arg.inner

\* Reached: a Rule whose callable returned the truthy integer 1 was
\* invoked, and the invocation raised AssertionError.
C11_Witness ==
    /\ Invoked
    /\ last.arg.cls = "Rule"
    /\ last.arg.inner = Return(PyValue("int", "1"))
    /\ last.outcome = Raise("AssertionError")

\* C12: a Recipe's name is the explicitly supplied name, else the wrapped
\* function's own name, else the name of the callable's type; after an
\* assignment to name, name returns the assigned value and recipe_for finds
\* a recipe under it, the assigned one unless an earlier recipe has it.
C12_NameIsCurrent ==
    /\ last.op = "name"
          => last.outcome = Return(CurrentName(recipes[last.arg]))
    /\ last.op = "set_name"
          => /\ name(recipes[last.arg.unit]) = last.arg.value
             /\ LET found == recipe_for(recipes, last.arg.value)
                IN  /\ found.kind = "return"
                    /\ found.value.index <= last.arg.unit
                    /\ name(found.value.recipe) = last.arg.value
                    /\ (\A j \in 1..(last.arg.unit - 1) :
                           CurrentName(recipes[j]) # last.arg.value)
                          => found.value.index = last.arg.unit

\* Reached: the name "b" was assigned to the second recipe, which wraps a
\* function called "a", no earlier recipe going by "b".
C12_Witness ==
    /\ last.op = "set_name"
    /\ last.arg.unit = 2
    /\ last.arg.value = "b"
    /\ recipes[2].func = Function("a")
    /\ CurrentName(recipes[1]) # "b"

\* C13: a call of missing_inputs(P) terminates, and ends either with a
\* returned set or with the cyclic-dependency error, a ValueError: it never
\* loops forever and never ends in another error.
C13_SetOrCycleErrorOnly ==
    Resolved
        => /\ last.outcome.kind # "diverge"
           /\ \/ last.outcome.kind = "return"
              \/ last.outcome = Raise("ValueError")

\* C14: missing_inputs, recipe_for and required leave the rules list and
\* the recipes list as they were, whether they return or raise, and the
\* same call repeated on the unchanged Cookbook has the same outcome.
Reads == {"missing_inputs", "recipe_for", "required"}

C14_Step ==
    last'.op \in Reads
        => /\ rules' = rules
           /\ recipes' = recipes
           /\ (last.op = last'.op /\ last.arg = last'.arg)
                 => last'.outcome = last.outcome

C14_ReadsArePure == [][C14_Step]_vars

\* Reached: missing_inputs was called with a primary input that a recipe
\* is named after, raised, and the recipe and the rules are in their lists.
C14_Witness ==
    /\ Resolved
    /\ last.outcome.kind = "raise"
    /\ rules # <<>>
    /\ \E i \in DOMAIN recipes : CurrentName(recipes[i]) \in last.arg

====
